---- MODULE Spec2Model ----
(***************************************************************************)
(* Model of src/js/script.ts: fetchDeckData, the asynchronous function     *)
(* that reads five DOM elements, issues one HTTP GET, validates the JSON   *)
(* body and renders either the deck statistics or an error banner.         *)
(*                                                                         *)
(* An invocation of fetchDeckData runs in three uninterruptible segments   *)
(* separated by its two awaits (line 38, line 50).  The network and the    *)
(* body reader are the environment: they settle the awaited promise, and   *)
(* the event loop then resumes the invocation.                             *)
(***************************************************************************)
EXTENDS Integers, Sequences, FiniteSets, TLC

\* Number of invocations of fetchDeckData in one behaviour.
MaxInv == 2

Invocations == 1..MaxInv

(***************************************************************************)
(* JavaScript values, tagged with their kind.                              *)
(***************************************************************************)
Undefined == [k |-> "undefined"]
Null == [k |-> "null"]
NaN == [k |-> "nan"]
Num(n) == [k |-> "number", n |-> n]
Str(s) == [k |-> "string", s |-> s]
Bool(b) == [k |-> "boolean", b |-> b]
Obj(props) == [k |-> "object", props |-> props]
Fun(props) == [k |-> "function", props |-> props]
Err(name, message) == [k |-> "error", name |-> name, message |-> message]

\* typeof v
Typeof(v) ==
    CASE v.k = "undefined" -> "undefined"
      [] v.k \in {"number", "nan"} -> "number"
      [] v.k = "string" -> "string"
      [] v.k = "boolean" -> "boolean"
      [] v.k = "function" -> "function"
      [] OTHER -> "object"

\* v instanceof Error
InstanceofError(v) == v.k = "error"

\* Boolean(v): the truthiness of v
Truthy(v) ==
    CASE v.k \in {"undefined", "null", "nan"} -> FALSE
      [] v.k = "number" -> v.n # 0
      [] v.k = "string" -> v.s # ""
      [] v.k = "boolean" -> v.b
      [] OTHER -> TRUE

\* p in v, for v an object (an Error carries message and name)
HasProp(v, p) ==
    CASE v.k \in {"object", "function"} -> p \in DOMAIN v.props
      [] v.k = "error" -> p \in {"message", "name"}
      [] OTHER -> FALSE

\* v.p, for a v that is neither null nor undefined
GetProp(v, p) ==
    CASE v.k \in {"object", "function"} ->
            IF p \in DOMAIN v.props THEN v.props[p] ELSE Undefined
      [] v.k = "error" /\ p = "message" -> Str(v.message)
      [] v.k = "error" /\ p = "name" -> Str(v.name)
      [] OTHER -> Undefined

Digit(d) == SubSeq("0123456789", d + 1, d + 1)

RECURSIVE NatToString(_)
NatToString(n) ==
    IF n < 10 THEN Digit(n) ELSE NatToString(n \div 10) \o Digit(n % 10)

\* Number.prototype.toString() on the numbers of the model
NumberToString(v) ==
    IF v.k = "nan" THEN "NaN"
    ELSE IF v.n < 0 THEN "-" \o NatToString(-v.n)
    ELSE NatToString(v.n)

\* String(v)
String(v) ==
    CASE v.k = "string" -> v.s
      [] v.k \in {"number", "nan"} -> NumberToString(v)
      [] v.k = "boolean" -> IF v.b THEN "true" ELSE "false"
      [] v.k = "undefined" -> "undefined"
      [] v.k = "null" -> "null"
      [] v.k = "error" -> v.name \o ": " \o v.message
      [] v.k = "function" -> "function () { }"
      [] OTHER -> "[object Object]"

(***************************************************************************)
(* The environment: what the page, the network and the body reader can     *)
(* hand to the function.                                                   *)
(***************************************************************************)
\* The identifiers getElementById is asked for (lines 18-22).
Ids == {"remaining-cards", "shuffle-status", "deck-card", "refresh-btn", "error-message"}

\* response.ok as the Fetch standard defines it: a status in 200..299.
Response(status) == [status |-> status, ok |-> status \in 200..299]

Statuses == {200, 299, 300, 429}

\* Values the fetch promise can reject with.  Browsers reject with a
\* TypeError; the catch clause takes `unknown`, so the other shapes stand
\* for whatever a replaced or wrapped fetch raises.
FetchRejections ==
    { Err("TypeError", "Failed to fetch"),
      Str("timeout"),
      Str(""),
      Obj([message |-> Str("quota exceeded")]),
      Obj([message |-> Num(7)]),
      Obj([code |-> Num(1)]),
      Fun([message |-> Str("from a function")]),
      Null }

RemainingValues == {Num(0), Num(3), Num(52), NaN}

DeckBody(r, s) ==
    Obj([success |-> Bool(TRUE), deck_id |-> Str("3p40paa87x90"),
         remaining |-> r, shuffled |-> s])

ValidBodies == {DeckBody(r, Bool(b)) : r \in RemainingValues, b \in BOOLEAN}

\* Parsed bodies that are objects or primitives but not a deck.
InvalidBodies ==
    { DeckBody(Str("52"), Bool(TRUE)),
      DeckBody(Num(52), Str("true")),
      DeckBody(Null, Num(1)),
      Obj([success |-> Bool(TRUE), shuffled |-> Bool(FALSE)]),
      Obj([success |-> Bool(TRUE), remaining |-> Num(3)]),
      Obj([success |-> Bool(FALSE), error |-> Str("Deck ID does not exist.")]),
      Num(42) }

\* What response.json() can fulfil with: any JSON value, `null` included.
Bodies == ValidBodies \cup InvalidBodies \cup {Null}

\* What response.json() can reject with.
JsonRejections ==
    { Err("SyntaxError", "Unexpected token < in JSON at position 0"),
      Err("TypeError", "Failed to fetch") }

\* Reading a property of null throws a TypeError whose text is the engine's.
NullReadErrors ==
    { Err("TypeError", "Cannot read properties of null (reading 'remaining')"),
      Err("TypeError", "data is null") }

Pending == [state |-> "pending"]
Fulfilled(v) == [state |-> "fulfilled", value |-> v]
Rejected(v) == [state |-> "rejected", value |-> v]
NoPromise == [state |-> "none"]

(***************************************************************************)
(* State.                                                                  *)
(***************************************************************************)
VARIABLES
    elements,   \* the identifiers the document resolves to an element
    ui,         \* the fields of the five elements the function touches
    pc,         \* each invocation's position
    promise,    \* the promise each invocation is awaiting
    requests,   \* HTTP requests issued so far
    console,    \* the console's entries (their first argument)
    overlapped  \* history: whether each invocation's cycle met another's

vars == <<elements, ui, pc, promise, requests, console, overlapped>>

InFlight(i) == pc[i] \in {"awaitFetch", "awaitJson"}

\* An awaited promise has settled and its continuation has not run yet.
\* The continuation of an await is a microtask: the event loop runs it
\* before it takes the next task (an event, another network result).
MicrotaskQueued ==
    \E i \in Invocations : promise[i].state \in {"fulfilled", "rejected"}

\* The page before the script has run: empty stat fields, an idle button.
InitialUi(display) ==
    [ remaining |-> "--", shuffle |-> "--", loading |-> FALSE,
      disabled |-> FALSE, label |-> "Get New Deck",
      banner |-> "", display |-> display ]

Init ==
    /\ elements \in SUBSET Ids
    /\ \E d \in {"none", "block"} : ui = InitialUi(d)
    /\ pc = [i \in Invocations |-> "ready"]
    /\ promise = [i \in Invocations |-> NoPromise]
    /\ requests = 0
    /\ console = <<>>
    /\ overlapped = [i \in Invocations |-> FALSE]

(***************************************************************************)
(* The segments of fetchDeckData.                                          *)
(***************************************************************************)
\* Variant: the null check leaves out the error banner.
AllButBannerFound == (Ids \ {"error-message"}) \subseteq elements

\* Line 25: all five handles resolved.
AllElementsFound == Ids \subseteq elements

\* Variant: the button is relabelled but not disabled.
ShowLoadingNoDisable(u) ==
    [u EXCEPT !.loading = TRUE, !.label = "Loading...", !.display = "none"]

\* Variant: a banner shown by an earlier failure is not hidden.
ShowLoadingKeepsBanner(u) ==
    [u EXCEPT !.loading = TRUE, !.disabled = TRUE, !.label = "Loading..."]

\* Lines 30-34: show loading state.
ShowLoading(u) ==
    [u EXCEPT !.loading = TRUE, !.disabled = TRUE,
              !.label = "Loading...", !.display = "none"]

\* Variant: the message leaves out the status code.
HttpErrorNoStatus(response) ==
    Obj([message |-> Str("HTTP error!"), status |-> Num(response.status)])

\* Lines 41-46: the ApiError thrown for a response that is not ok.
HttpError(response) ==
    Obj([message |-> Str("HTTP error! status: " \o String(Num(response.status))),
         status |-> Num(response.status)])

\* Line 53: the validation condition, for data whose properties can be read.
InvalidStructure(data) ==
    \/ Typeof(GetProp(data, "remaining")) # "number"
    \/ Typeof(GetProp(data, "shuffled")) # "boolean"

\* Variant: the shuffle flag is rendered inverted.
UpdateStatsInverted(u, data) ==
    [u EXCEPT !.remaining = NumberToString(GetProp(data, "remaining")),
              !.shuffle = IF GetProp(data, "shuffled").b THEN "No" ELSE "Yes"]

\* Lines 57-59: update the stat cards.
UpdateStats(u, data) ==
    [u EXCEPT !.remaining = NumberToString(GetProp(data, "remaining")),
              !.shuffle = IF GetProp(data, "shuffled").b THEN "Yes" ELSE "No"]

\* Variant: the string branch is missing.
ErrorTextNoStringBranch(error) ==
    IF InstanceofError(error) THEN error.message
    ELSE IF Truthy(error) /\ Typeof(error) = "object" /\ HasProp(error, "message")
         THEN String(GetProp(error, "message"))
    ELSE "An unknown error occurred"

\* Lines 68-76: the text derived from the caught value.
ErrorText(error) ==
    IF InstanceofError(error) THEN error.message
    ELSE IF Typeof(error) = "string" THEN error.s
    ELSE IF Truthy(error) /\ Typeof(error) = "object" /\ HasProp(error, "message")
         THEN String(GetProp(error, "message"))
    ELSE "An unknown error occurred"

\* Variant: only the remaining field is set to "Error".
ShowErrorOneField(u, error) ==
    [u EXCEPT !.remaining = "Error",
              !.banner = "Failed to load deck data: " \o ErrorText(error),
              !.display = "block"]

\* Lines 78-83: the catch clause's writes.
ShowError(u, error) ==
    [u EXCEPT !.remaining = "Error", !.shuffle = "Error",
              !.banner = "Failed to load deck data: " \o ErrorText(error),
              !.display = "block"]

\* Variant: the loading class stays on the card.
RemoveLoadingKeepsClass(u) ==
    [u EXCEPT !.disabled = FALSE, !.label = "Get New Deck"]

\* Lines 86-89: the finally clause.
RemoveLoading(u) ==
    [u EXCEPT !.loading = FALSE, !.disabled = FALSE, !.label = "Get New Deck"]

\* Variant: the cleanup follows the try body instead of sitting in a
\* finally clause, so the error path skips it.
FailWithoutFinally(i, error) ==
    /\ console' = Append(console, "Error fetching deck data:")
    /\ ui' = ShowError(ui, error)
    /\ pc' = [pc EXCEPT ![i] = "done"]
    /\ promise' = [promise EXCEPT ![i] = NoPromise]

\* Lines 64-90: an invocation that caught `error` ends.
Fail(i, error) ==
    /\ console' = Append(console, "Error fetching deck data:")
    /\ ui' = RemoveLoading(ShowError(ui, error))
    /\ pc' = [pc EXCEPT ![i] = "done"]
    /\ promise' = [promise EXCEPT ![i] = NoPromise]

\* Lines 16-38: the call, up to the first await.  Invocations are numbered
\* in the order they are made.
Call(i) ==
    /\ pc[i] = "ready"
    /\ ~MicrotaskQueued
    /\ \A j \in Invocations : j < i => pc[j] # "ready"
    /\ IF ~AllElementsFound
       THEN /\ console' = Append(console, "Required DOM elements not found")
            /\ pc' = [pc EXCEPT ![i] = "done"]
            /\ UNCHANGED <<ui, promise, requests, overlapped>>
       ELSE /\ ui' = ShowLoading(ui)
            /\ overlapped' = [j \in Invocations |->
                    IF j = i THEN \E k \in Invocations : InFlight(k)
                    ELSE overlapped[j] \/ InFlight(j)]
            /\ requests' = requests + 1
            /\ promise' = [promise EXCEPT ![i] = Pending]
            /\ pc' = [pc EXCEPT ![i] = "awaitFetch"]
            /\ UNCHANGED console
    /\ UNCHANGED elements

\* The network settles the request of invocation i.
FetchSettles(i) ==
    /\ pc[i] = "awaitFetch"
    /\ promise[i] = Pending
    /\ ~MicrotaskQueued
    /\ \/ \E s \in Statuses :
            promise' = [promise EXCEPT ![i] = Fulfilled(Response(s))]
       \/ \E e \in FetchRejections :
            promise' = [promise EXCEPT ![i] = Rejected(e)]
    /\ UNCHANGED <<elements, ui, pc, requests, console, overlapped>>

\* Lines 38-50: resumed after the fetch, up to the second await.
AfterFetch(i) ==
    /\ pc[i] = "awaitFetch"
    /\ promise[i].state \in {"fulfilled", "rejected"}
    /\ IF promise[i].state = "rejected"
       THEN Fail(i, promise[i].value)
       ELSE IF ~promise[i].value.ok
       THEN Fail(i, HttpError(promise[i].value))
       ELSE /\ pc' = [pc EXCEPT ![i] = "awaitJson"]
            /\ promise' = [promise EXCEPT ![i] = Pending]
            /\ UNCHANGED <<ui, console>>
    /\ UNCHANGED <<elements, requests, overlapped>>

\* The body reader settles response.json() of invocation i.
JsonSettles(i) ==
    /\ pc[i] = "awaitJson"
    /\ promise[i] = Pending
    /\ ~MicrotaskQueued
    /\ \/ \E b \in Bodies :
            promise' = [promise EXCEPT ![i] = Fulfilled(b)]
       \/ \E e \in JsonRejections :
            promise' = [promise EXCEPT ![i] = Rejected(e)]
    /\ UNCHANGED <<elements, ui, pc, requests, console, overlapped>>

\* Lines 50-62 and 85-90: the body arrived and is a deck.
Succeed(i, data) ==
    /\ console' = Append(console, "Full API response:")
    /\ ui' = RemoveLoading(UpdateStats(ui, data))
    /\ pc' = [pc EXCEPT ![i] = "done"]
    /\ promise' = [promise EXCEPT ![i] = NoPromise]

\* Lines 50-90: resumed after the body read, to the end.
AfterJson(i) ==
    /\ pc[i] = "awaitJson"
    /\ promise[i].state \in {"fulfilled", "rejected"}
    /\ IF promise[i].state = "rejected"
       THEN Fail(i, promise[i].value)
       ELSE IF promise[i].value.k \in {"null", "undefined"}
       THEN \E e \in NullReadErrors : Fail(i, e)
       ELSE IF InvalidStructure(promise[i].value)
       THEN Fail(i, Err("Error", "Invalid API response structure"))
       ELSE Succeed(i, promise[i].value)
    /\ UNCHANGED <<elements, requests, overlapped>>

Next ==
    \E i \in Invocations :
        \/ Call(i)
        \/ FetchSettles(i)
        \/ AfterFetch(i)
        \/ JsonSettles(i)
        \/ AfterJson(i)

Spec == Init /\ [][Next]_vars

\* The event loop resumes an invocation whose awaited promise has settled.
\* Nothing makes the network or the body reader settle: no timeout is set.
SpecSched ==
    Spec /\ \A i \in Invocations : WF_vars(AfterFetch(i)) /\ WF_vars(AfterJson(i))

(***************************************************************************)
(* Vocabulary of the properties.                                           *)
(***************************************************************************)
Prefix == "Failed to load deck data: "

StartsWith(s, p) == Len(s) >= Len(p) /\ SubSeq(s, 1, Len(p)) = p

Contains(s, t) ==
    \E k \in 1..(Len(s) - Len(t) + 1) : SubSeq(s, k, k + Len(t) - 1) = t

\* The card is idle and ready for the next trigger.
Idle(u) == ~u.loading /\ ~u.disabled /\ u.label = "Get New Deck"

\* The card shows a fetch in progress.
Loading(u) == u.loading /\ u.disabled /\ u.label = "Loading..."

\* Invocation i ends in this step, having entered the loading state.
Completes(i) == InFlight(i) /\ pc'[i] = "done"

\* A parsed body with a numeric `remaining` and a boolean `shuffled`.
IsDeck(b) ==
    /\ b.k = "object"
    /\ {"remaining", "shuffled"} \subseteq DOMAIN b.props
    /\ b.props.remaining.k \in {"number", "nan"}
    /\ b.props.shuffled.k = "boolean"

\* Invocation i is about to end with a body that is a deck.
EndsWithDeck(i) ==
    /\ pc[i] = "awaitJson"
    /\ promise[i].state = "fulfilled"
    /\ IsDeck(promise[i].value)

\* The decimal numeral of a number, by TLC's own conversion.
Numeral(v) == IF v.k = "nan" THEN "NaN" ELSE ToString(v.n)

YesNo(v) == IF v.b THEN "Yes" ELSE "No"

\* Both stat fields show the deck of body b.
ShowsDeck(u, b) ==
    /\ u.remaining = Numeral(b.props.remaining)
    /\ u.shuffle = YesNo(b.props.shuffled)

ShowsError(u) == u.remaining = "Error" /\ u.shuffle = "Error"

(***************************************************************************)
(* C1.  Whatever the outcome of a fetch cycle, in the state where the      *)
(* invocation completes the card is not loading, the button is enabled     *)
(* and its label is "Get New Deck".                                        *)
(***************************************************************************)
C1_CleanupOnCompletion ==
    [][\A i \in Invocations : Completes(i) => Idle(ui')]_vars

\* Both a failed and a successful cycle have completed.
C1_Witness ==
    /\ \A i \in Invocations : pc[i] = "done"
    /\ \E m, n \in 1..Len(console) :
          /\ console[m] = "Error fetching deck data:"
          /\ console[n] = "Full API response:"
    /\ Idle(ui)

(***************************************************************************)
(* C2.  With any of the five handles absent, a call issues no request and  *)
(* changes no UI field; its only effect is one diagnostic console entry,   *)
(* and every later call does the same.                                     *)
(***************************************************************************)
C2_MissingHandlesNoEffect ==
    [][\A i \in Invocations :
          (pc[i] = "ready" /\ pc'[i] # "ready" /\ ~(Ids \subseteq elements)) =>
             /\ ui' = ui
             /\ requests' = requests /\ requests = 0
             /\ promise' = promise
             /\ pc'[i] = "done"
             /\ console' = Append(console, "Required DOM elements not found")]_vars

\* Two calls were made with only the error banner missing.
C2_Witness ==
    /\ elements = Ids \ {"error-message"}
    /\ Len(console) >= 2
    /\ requests = 0
    /\ \E d \in {"none", "block"} : ui = InitialUi(d)

(***************************************************************************)
(* C3.  A cycle that overlapped no other and receives a 2xx response whose *)
(* body has a numeric `remaining` and a boolean `shuffled` ends with the   *)
(* remaining field showing the numeral of `remaining`, the shuffle field   *)
(* showing "Yes" or "No" as `shuffled` is true or false, and the banner    *)
(* hidden; neither field shows "Error".                                    *)
(***************************************************************************)
C3_SuccessRendersDeck ==
    [][\A i \in Invocations :
          (Completes(i) /\ EndsWithDeck(i) /\ ~overlapped[i]) =>
             /\ ShowsDeck(ui', promise[i].value)
             /\ ui'.display = "none"
             /\ ui'.remaining # "Error" /\ ui'.shuffle # "Error"]_vars

\* A failed cycle was followed by one that rendered 52 cards, shuffled.
C3_Witness ==
    /\ \A i \in Invocations : pc[i] = "done" /\ ~overlapped[i]
    /\ console[1] = "Error fetching deck data:"
    /\ console[Len(console)] = "Full API response:"
    /\ ui.remaining = "52" /\ ui.shuffle = "Yes" /\ ui.display = "none"

(***************************************************************************)
(* C4.  For a response whose status is not 2xx the body is never read      *)
(* (the invocation ends at once), both stat fields become "Error", and     *)
(* the banner is shown with a text that starts with the prefix and         *)
(* contains the status code.                                               *)
(***************************************************************************)
C4_HttpFailure ==
    [][\A i \in Invocations :
          ( /\ pc[i] = "awaitFetch"
            /\ promise[i].state = "fulfilled"
            /\ promise[i].value.status \notin 200..299
            /\ pc'[i] # pc[i] ) =>
             /\ pc'[i] = "done"
             /\ ShowsError(ui')
             /\ ui'.display = "block"
             /\ StartsWith(ui'.banner, Prefix)
             /\ Contains(ui'.banner, ToString(promise[i].value.status))]_vars

C4_Witness ==
    /\ \E i \in Invocations : pc[i] = "done"
    /\ ShowsError(ui)
    /\ ui.display = "block"
    /\ ui.banner = "Failed to load deck data: HTTP error! status: 429"

(***************************************************************************)
(* C5.  For a 2xx response whose parsed body lacks a numeric `remaining`   *)
(* or a boolean `shuffled`, both stat fields become "Error" and the banner *)
(* shows the generic validation message.                                   *)
(***************************************************************************)
C5_InvalidBodyGenericMessage ==
    [][\A i \in Invocations :
          ( /\ Completes(i)
            /\ pc[i] = "awaitJson"
            /\ promise[i].state = "fulfilled"
            /\ ~IsDeck(promise[i].value) ) =>
             /\ ShowsError(ui')
             /\ ui'.display = "block"
             /\ ui'.banner = "Failed to load deck data: Invalid API response structure"]_vars

(***************************************************************************)
(* C6.  For a raised value the banner is shown with the prefix followed    *)
(* by: the Error's message if the value is an Error; otherwise the value   *)
(* itself if it is a string; otherwise its `message` field, stringified,   *)
(* if it is a non-null object that has one; otherwise the constant "An     *)
(* unknown error occurred".                                                *)
(***************************************************************************)
Stringified(m) ==
    CASE m.k = "string" -> m.s
      [] m.k = "number" -> ToString(m.n)

MessageByPrecedence(e) ==
    CASE e.k = "error" -> e.message
      [] e.k = "string" -> e.s
      [] e.k = "object" /\ "message" \in DOMAIN e.props ->
            Stringified(e.props.message)
      [] OTHER -> "An unknown error occurred"

\* The value invocation i is about to catch: what its awaited promise was
\* rejected with, or the ApiError object made for a status that is not 2xx.
Raised(i) ==
    IF promise[i].state = "rejected" THEN promise[i].value
    ELSE [k |-> "object",
          props |-> [message |-> [k |-> "string",
                                   s |-> "HTTP error! status: "
                                         \o ToString(promise[i].value.status)],
                     status |-> [k |-> "number", n |-> promise[i].value.status]]]

C6_MessagePrecedence ==
    [][\A i \in Invocations :
          ( /\ Completes(i)
            /\ \/ promise[i].state = "rejected"
               \/ pc[i] = "awaitFetch" /\ promise[i].state = "fulfilled" ) =>
             /\ ui'.banner = Prefix \o MessageByPrecedence(Raised(i))
             /\ ui'.display = "block"]_vars

\* An object whose message is the number 7 was raised.
C6_Witness ==
    /\ \E i \in Invocations : pc[i] = "done"
    /\ ui.banner = "Failed to load deck data: 7"
    /\ ui.display = "block"

(***************************************************************************)
(* C7.  As claimed: in every state at most one cycle is in flight, and     *)
(* while one is in flight the card shows the loading state.                *)
(***************************************************************************)
AtMostOneInFlight == Cardinality({i \in Invocations : InFlight(i)}) <= 1

C7_Original ==
    /\ AtMostOneInFlight
    /\ (\E i \in Invocations : InFlight(i)) => Loading(ui)

(***************************************************************************)
(* C7, amended.  A cycle that has overlapped no other is the only one in   *)
(* flight, and while it is in flight the card shows the loading state.     *)
(***************************************************************************)
C7_NonOverlappedLoading ==
    \A i \in Invocations :
        (InFlight(i) /\ ~overlapped[i]) =>
            /\ \A j \in Invocations : InFlight(j) => j = i
            /\ Loading(ui)

\* A second cycle is in flight after the first has completed.
C7_Witness ==
    /\ \E i, j \in Invocations : pc[i] = "done" /\ InFlight(j) /\ requests >= 2
    /\ \A i \in Invocations : ~overlapped[i]
    /\ Loading(ui)

(***************************************************************************)
(* C8.  As claimed: every invocation that entered the loading state        *)
(* eventually completes with the card idle, and the card never stays       *)
(* loading forever.                                                        *)
(***************************************************************************)
C8_Original ==
    /\ \A i \in Invocations : InFlight(i) ~> (pc[i] = "done" /\ Idle(ui))
    /\ ui.loading ~> ~ui.loading

(***************************************************************************)
(* C8, amended.  Provided every awaited network call and body read         *)
(* eventually settles, every invocation that entered the loading state     *)
(* eventually completes with the card idle.                                *)
(***************************************************************************)
\* The network and the body reader leave no promise pending forever.
EverySettles ==
    \A i \in Invocations : WF_vars(FetchSettles(i)) /\ WF_vars(JsonSettles(i))

C8_EventuallyIdle ==
    EverySettles =>
        /\ \A i \in Invocations : InFlight(i) ~> (pc[i] = "done" /\ Idle(ui))
        /\ ui.loading ~> ~ui.loading

C8_Witness ==
    /\ \A i \in Invocations : pc[i] = "done"
    /\ requests = MaxInv
    /\ Idle(ui)

(***************************************************************************)
(* C9.  The two stat fields always come from one invocation: every step    *)
(* either leaves both unchanged or is the completion of one invocation,    *)
(* which writes both from its own outcome (its deck, or "Error" twice);    *)
(* so the fields hold what the invocation that completed last wrote.       *)
(***************************************************************************)
StatsPaired ==
    \/ ui.remaining = "--" /\ ui.shuffle = "--"
    \/ ShowsError(ui)
    \/ \E b \in ValidBodies : ShowsDeck(ui, b)

C9_LastResponseWins ==
    /\ [] StatsPaired
    /\ [][\A i \in Invocations :
             IF Completes(i)
             THEN IF EndsWithDeck(i)
                  THEN ShowsDeck(ui', promise[i].value)
                  ELSE ShowsError(ui')
             ELSE (\A j \in Invocations : ~Completes(j)) =>
                     /\ ui'.remaining = ui.remaining
                     /\ ui'.shuffle = ui.shuffle]_vars

\* Two overlapping cycles: one failed, then the other rendered its deck.
C9_Witness ==
    /\ \A i \in Invocations : pc[i] = "done" /\ overlapped[i]
    /\ console[Len(console) - 1] = "Error fetching deck data:"
    /\ console[Len(console)] = "Full API response:"
    /\ ui.remaining = "3" /\ ui.shuffle = "No"

(***************************************************************************)
(* C10.  As claimed: whenever a cycle has completed and none is in         *)
(* flight, the banner is visible exactly when both stat fields read        *)
(* "Error".                                                                *)
(***************************************************************************)
Settled ==
    /\ \A i \in Invocations : ~InFlight(i)
    /\ requests >= 1

C10_Original ==
    Settled => (ui.display = "block" <=> ShowsError(ui))

(***************************************************************************)
(* C10, amended.  Whenever a cycle has completed and none is in flight,    *)
(* stat fields reading "Error" come with a visible banner; and if no       *)
(* cycle overlapped another, a visible banner comes with both stat fields  *)
(* reading "Error".                                                        *)
(***************************************************************************)
C10_BannerMatchesStats ==
    Settled =>
        /\ ShowsError(ui) => ui.display = "block"
        /\ (\A i \in Invocations : ~overlapped[i]) =>
              (ui.display = "block" => ShowsError(ui))

\* A success after a failure, one after the other, leaves the banner hidden.
C10_Witness ==
    /\ \A i \in Invocations : pc[i] = "done" /\ ~overlapped[i]
    /\ console[1] = "Error fetching deck data:"
    /\ console[Len(console)] = "Full API response:"
    /\ ui.display = "none" /\ ~ShowsError(ui)
    /\ ui.banner # ""
====
